---- MODULE Spec2Model ----
(***************************************************************************)
(* Model of the Kalshi tennis alert poller (src/app.py).                   *)
(*                                                                         *)
(* One asyncio task runs main(): an endless poll loop that fetches the     *)
(* open markets, filters them, admits new tennis markets whose best yes    *)
(* ask is high enough and, for admitted markets, counts consecutive low    *)
(* asks and sends one push notification when the count is reached.         *)
(*                                                                         *)
(* Units.  Prices are counted in hundredths: the Python value 0.65 is 65,  *)
(* 1 is 100, a raw book entry of 65 (cents) is 6500.  Instants and         *)
(* durations are counted in seconds.                                       *)
(*                                                                         *)
(* Every await of the task is a suspension point.  The model splits each   *)
(* price request in two: the gateway answers (the order book is held in    *)
(* reply), then the task resumes and runs synchronously to its next await. *)
(***************************************************************************)
EXTENDS Integers, Sequences, FiniteSets, TLC

VARIABLES
    env,        \* which of the three environment settings are present
    pc,         \* the await the task is suspended at (or "start", "loop")
    reply,      \* the order book answering the pending price request
    tracked,    \* the dict tracked: ticker -> record
    markets,    \* the rest of the for loop's list, the current market first
    now,        \* the cycle timestamp read at line 77
    msg,        \* the notification being sent (the payload of push_alert)
    err,        \* the exception e bound by the handler while it sleeps
    sends,      \* history: notification sends issued, per ticker
    obs,        \* history: the last observations of a record, TRUE = below DROP_THRESHOLD
    declined,   \* history: how a ticker was last looked at and not admitted
    qualified,  \* history: tickers seen with a qualifying opening price
    stale,      \* history: the open times an untracked ticker was found too old with
    outcome,    \* history: how the notification send of a ticker ended
    price,      \* the argument of a call of normalize_price on its own
    normalized, \* the value that call returned
    touched,    \* history: how often a ticker's record was written in the cycle under way
    dropped     \* history: how many listed markets the handler left unhandled

vars == <<env, pc, reply, tracked, markets, now, msg, err, sends, obs, declined,
          qualified, stale, outcome, price, normalized, touched, dropped>>

hist == <<sends, obs, declined, qualified, stale, outcome>>

-----------------------------------------------------------------------------
(* Program constants *)

OPENING_THRESHOLD == 65
DROP_THRESHOLD == 50
FIRST_SET_WINDOW_MINUTES == 30
DROP_CONFIRM_TICKS == 2
Hundred == 100

(* Bounds *)

MaxMarkets == 2
MaxWhole == 100

-----------------------------------------------------------------------------
(* Values *)

None == "None"
NoPrice == <<>>
Some(p) == <<p>>
Pending == [kind |-> "pending", asks |-> <<>>]
Book(asks) == [kind |-> "book", asks |-> asks]
NoMsg == [ticker |-> None]

Tickers == {"T1", "T2"}

TitleA == <<"T", "e", "n", "n", "i", "s", " ", "A">>
TitleB == <<"A", "T", "P", " ", "T", "E", "N", "N", "I", "S">>
TitleGolf == <<"G", "o", "l", "f">>
Keyword == <<"t", "e", "n", "n", "i", "s">>

IsoEpoch == "1970-01-01T00:00:00Z"
IsoLater == "1970-01-01T00:01:30Z"
IsoBad == "not-a-date"

\* the market snapshots the gateway may list
Snapshots ==
    { [ticker |-> "T1", title |-> TitleA, open_time |-> IsoEpoch],
      [ticker |-> "T1", title |-> TitleB, open_time |-> IsoLater],
      [ticker |-> "T2", title |-> TitleA, open_time |-> IsoLater],
      [ticker |-> "T1", title |-> TitleGolf, open_time |-> IsoEpoch],
      [ticker |-> None, title |-> TitleA, open_time |-> IsoEpoch],
      [ticker |-> "T1", title |-> TitleA, open_time |-> None],
      [ticker |-> "T2", title |-> TitleA, open_time |-> IsoBad] }

RECURSIVE ListsOf(_, _)
ListsOf(S, n) ==
    IF n = 0 THEN {<<>>}
    ELSE LET shorter == ListsOf(S, n - 1)
         IN  shorter \cup {<<s>> \o l : s \in S, l \in {x \in shorter : Len(x) = n - 1}}

MarketLists == ListsOf(Snapshots, MaxMarkets)

\* the readings of the wall clock, in seconds: 30 minutes, 30 minutes and a
\* second, and 31.5 minutes after IsoEpoch (28.5, 28.5 and 30 minutes and a
\* second after IsoLater)
Instants == {1800, 1801, 1891}

\* raw prices of a book entry: 0.45 and 0.50 as fractions, 65 as cents
RawPrices == {45, 50, 6500}

\* the yes_asks lists of an order book: empty, or a best ask that may be null
AskLists == {<<>>, <<NoPrice>>} \cup {<<Some(p)>> : p \in RawPrices}

\* the books of a gateway that is not held to prices of at most 100 cents:
\* a best ask of 150 as well
WideAskLists == AskLists \cup {<<Some(15000)>>}

\* the arguments of normalize_price: absent, the fractions 0.00 .. 1.00, and
\* the whole numbers 2 .. MaxWhole
NormalizeArgs ==
    {NoPrice} \cup {Some(p) : p \in 0..Hundred}
              \cup {Some(Hundred * c) : c \in 2..MaxWhole}

Envs == [base : BOOLEAN, token : BOOLEAN, user : BOOLEAN]

-----------------------------------------------------------------------------
(* Pure functions *)

\* normalize_price with ">=" for ">" at line 55
normalize_price_Inclusive(p) ==
    IF p = NoPrice THEN NoPrice
    ELSE IF p[1] >= Hundred THEN Some(p[1] \div Hundred) ELSE p

\* lines 52-55; 1 is Hundred hundredths
normalize_price(p) ==
    IF p = NoPrice THEN NoPrice
    ELSE IF p[1] > Hundred THEN Some(p[1] \div Hundred) ELSE p

\* get_yes_price reading an empty book as a price of 0
get_yes_price_Zero(asks) ==
    IF asks = <<>> THEN Some(0) ELSE normalize_price(asks[1])

\* lines 58-63: no asks, no price; else the first ask's price, normalized
get_yes_price(asks) ==
    IF asks = <<>> THEN NoPrice ELSE normalize_price(asks[1])

LowerChar(c) ==
    CASE c = "A" -> "a" [] c = "E" -> "e" [] c = "G" -> "g" [] c = "I" -> "i"
      [] c = "N" -> "n" [] c = "P" -> "p" [] c = "S" -> "s" [] c = "T" -> "t"
      [] OTHER -> c

Lower(s) == [i \in 1..Len(s) |-> LowerChar(s[i])]

Contains(needle, hay) ==
    \E i \in 0..(Len(hay) - Len(needle)) :
        \A j \in 1..Len(needle) : hay[i + j] = needle[j]

\* IsTennis without the title test of line 84
IsTennis_AnyTitle(m) == m.ticker # None

IsTennis(m) == m.ticker # None /\ Contains(Keyword, Lower(m.title))

Parsable(o) == o \in {IsoEpoch, IsoLater}

FromIso(o) == CASE o = IsoEpoch -> 0 [] o = IsoLater -> 90

\* TooOld on whole minutes: int(minutes_live) > FIRST_SET_WINDOW_MINUTES
TooOld_Truncated(t, o) == ((t - o) \div 60) > FIRST_SET_WINDOW_MINUTES

\* minutes_live > FIRST_SET_WINDOW_MINUTES, with minutes_live = seconds / 60
TooOld(t, o) == (t - o) > FIRST_SET_WINDOW_MINUTES * 60

\* int(minutes_live): truncation toward zero
IntMinutes(t, o) ==
    IF t - o >= 0 THEN (t - o) \div 60 ELSE 0 - ((o - t) \div 60)

-----------------------------------------------------------------------------
(* The tracking store *)

NoRecords == [t \in {} |-> 0]

Untouched == [t \in Tickers |-> 0]

NewRecord(m, opening_price) ==
    [title |-> m.title,
     opened_at |-> FromIso(m.open_time),
     opening_price |-> opening_price[1],
     alerted |-> FALSE,
     below_50_ticks |-> 0]

Put(store, k, rec) ==
    [t \in DOMAIN store \cup {k} |-> IF t = k THEN rec ELSE store[t]]

\* Qualifies with ">" for ">=" at line 96
Qualifies_Strict(opening_price) ==
    /\ opening_price # NoPrice
    /\ opening_price[1] # 0
    /\ opening_price[1] > OPENING_THRESHOLD

\* line 96: "opening_price and opening_price >= OPENING_THRESHOLD"
Qualifies(opening_price) ==
    /\ opening_price # NoPrice
    /\ opening_price[1] # 0
    /\ opening_price[1] >= OPENING_THRESHOLD

\* Observe without the reset of line 118
Observe_NoReset(rec, live_price) ==
    LET ticks == IF live_price[1] < DROP_THRESHOLD
                 THEN rec.below_50_ticks + 1
                 ELSE rec.below_50_ticks
    IN  IF ticks >= DROP_CONFIRM_TICKS
        THEN [rec EXCEPT !.below_50_ticks = ticks, !.alerted = TRUE]
        ELSE [rec EXCEPT !.below_50_ticks = ticks]

\* Observe with "<=" for "<" at line 115
Observe_Inclusive(rec, live_price) ==
    LET ticks == IF live_price[1] <= DROP_THRESHOLD
                 THEN rec.below_50_ticks + 1
                 ELSE 0
    IN  IF ticks >= DROP_CONFIRM_TICKS
        THEN [rec EXCEPT !.below_50_ticks = ticks, !.alerted = TRUE]
        ELSE [rec EXCEPT !.below_50_ticks = ticks]

\* Observe with ">" for ">=" at line 120
Observe_Late(rec, live_price) ==
    LET ticks == IF live_price[1] < DROP_THRESHOLD
                 THEN rec.below_50_ticks + 1
                 ELSE 0
    IN  IF ticks > DROP_CONFIRM_TICKS
        THEN [rec EXCEPT !.below_50_ticks = ticks, !.alerted = TRUE]
        ELSE [rec EXCEPT !.below_50_ticks = ticks]

\* lines 115-121: the counter rule and the confirmation test
Observe(rec, live_price) ==
    LET ticks == IF live_price[1] < DROP_THRESHOLD
                 THEN rec.below_50_ticks + 1
                 ELSE 0
    IN  IF ticks >= DROP_CONFIRM_TICKS
        THEN [rec EXCEPT !.below_50_ticks = ticks, !.alerted = TRUE]
        ELSE [rec EXCEPT !.below_50_ticks = ticks]

\* Message with the title of the listing in hand for the title of the record
Message_ListedTitle(rec, live_price, ticker, minutes) ==
    [ticker |-> ticker,
     title |-> Head(markets).title,
     opening_price |-> rec.opening_price,
     live_price |-> live_price[1],
     minutes |-> minutes]

\* lines 123-129: the fields the message is composed of
Message(rec, live_price, ticker, minutes) ==
    [ticker |-> ticker,
     title |-> rec.title,
     opening_price |-> rec.opening_price,
     live_price |-> live_price[1],
     minutes |-> minutes]

-----------------------------------------------------------------------------
(* History bookkeeping *)

Last(s, n) == IF Len(s) <= n THEN s ELSE SubSeq(s, Len(s) - n + 1, Len(s))

\* a ticker not in the store failed the window test with this open time
NoteStale(m) ==
    stale' = IF m.ticker \notin DOMAIN tracked
             THEN [stale EXCEPT ![m.ticker] = @ \cup {FromIso(m.open_time)}]
             ELSE stale

\* a price was fetched for a market: was it a qualifying opening price (present
\* and at least 0.65) on a listing with a tennis title inside the window?
NoteSighting(m, seen) ==
    qualified' =
        IF /\ seen # NoPrice
           /\ seen[1] >= OPENING_THRESHOLD
           /\ Contains(Keyword, Lower(m.title))
           /\ now - FromIso(m.open_time) <= FIRST_SET_WINDOW_MINUTES * 60
        THEN qualified \cup {m.ticker}
        ELSE qualified

\* a ticker not in the store was looked at and not admitted: "filter" when
\* lines 84-91 skipped it, "price" when line 96 refused its price
NoteDeclined(t, why) ==
    declined' = IF t \in Tickers /\ t \notin DOMAIN tracked
                THEN [declined EXCEPT ![t] = IF @ = "price" THEN @ ELSE why]
                ELSE declined

\* the send of a ticker's notification returned, or raised
NoteOutcome(t, how) == outcome' = [outcome EXCEPT ![t] = how]

\* the record of a ticker was created or updated in the cycle under way
NoteWrite(t) == touched' = [touched EXCEPT ![t] = @ + 1]

\* the handler takes over: the markets listed after the one in hand are left
NoteDropped == dropped' = IF markets = <<>> THEN 0 ELSE Len(markets) - 1

-----------------------------------------------------------------------------
(* The poll loop *)

Cur == Head(markets)

\* InWindow with the window test of lines 90-91 made for new tickers only
InWindow_NewOnly(m) ==
    /\ IsTennis(m)
    /\ Parsable(m.open_time)
    /\ ~TooOld(now, FromIso(m.open_time)) \/ m.ticker \in DOMAIN tracked

\* lines 84-91 passed: the market is handled in this cycle
InWindow(m) ==
    /\ IsTennis(m)
    /\ Parsable(m.open_time)
    /\ ~TooOld(now, FromIso(m.open_time))

\* HandleException with the store created inside the loop: a failed cycle
\* starts the next one with an empty store
HandleException_Reset(e) ==
    /\ pc' = "backoff"
    /\ err' = e
    /\ markets' = <<>>
    /\ reply' = Pending
    /\ msg' = NoMsg
    /\ tracked' = NoRecords
    /\ touched' = Untouched
    /\ NoteDropped

\* HandleException with the try inside the for loop: the market in hand is
\* given up and the loop goes on with the next one
HandleException_PerMarket(e) ==
    /\ pc' = IF markets = <<>> THEN "backoff" ELSE "loop"
    /\ err' = e
    /\ markets' = IF markets = <<>> THEN <<>> ELSE Tail(markets)
    /\ reply' = Pending
    /\ msg' = NoMsg
    /\ tracked' = tracked
    /\ touched' = touched
    /\ dropped' = 0

\* lines 136-138: the handler at the cycle boundary; the rest of the list is
\* dropped, the store is left as it is, and the task sleeps 10 seconds
HandleException(e) ==
    /\ pc' = "backoff"
    /\ err' = e
    /\ markets' = <<>>
    /\ reply' = Pending
    /\ msg' = NoMsg
    /\ tracked' = tracked
    /\ touched' = Untouched
    /\ NoteDropped

\* "continue" and the end of an iteration: on to the next market
NextMarket ==
    /\ pc' = "loop"
    /\ markets' = Tail(markets)
    /\ reply' = Pending
    /\ msg' = NoMsg
    /\ err' = err

\* lines 70-76: main() creates the store and enters the loop, which asks
\* for the market list
Start ==
    /\ pc = "start"
    /\ pc' = "fetch"
    /\ tracked' = NoRecords
    /\ UNCHANGED <<env, price, normalized, dropped, touched, reply, markets, now, msg, err, hist>>

\* lines 76-79: the market list arrives and the clock is read; the clock does
\* not run backwards from one cycle to the next
FetchMarkets ==
    /\ pc = "fetch"
    /\ env.base
    /\ \E list \in MarketLists, clock \in Instants :
          /\ clock >= now
          /\ markets' = list
          /\ now' = clock
    /\ pc' = "loop"
    /\ UNCHANGED <<env, price, normalized, dropped, touched, reply, tracked, msg, err, hist>>

\* line 76 raises: network error, HTTP error status, or no base URL
FetchMarketsFails ==
    /\ pc = "fetch"
    /\ HandleException("fetch")
    /\ UNCHANGED <<env, price, normalized, now, hist>>

\* line 79 exhausted, line 134
LoopEnd ==
    /\ pc = "loop"
    /\ markets = <<>>
    /\ pc' = "sleep"
    /\ touched' = Untouched
    /\ UNCHANGED <<env, price, normalized, dropped, reply, tracked, markets, now, msg, err, hist>>

\* lines 84-85
SkipMarket ==
    /\ pc = "loop"
    /\ markets # <<>>
    /\ ~IsTennis(Cur)
    /\ NextMarket
    /\ NoteDeclined(Cur.ticker, "filter")
    /\ UNCHANGED <<env, price, normalized, dropped, touched, tracked, now, sends, obs, qualified, stale, outcome>>

\* line 87 raises: open_time is missing or does not parse
ParseFails ==
    /\ pc = "loop"
    /\ markets # <<>>
    /\ IsTennis(Cur)
    /\ ~Parsable(Cur.open_time)
    /\ HandleException("parse")
    /\ UNCHANGED <<env, price, normalized, now, hist>>

\* lines 87-91
SkipOld ==
    /\ pc = "loop"
    /\ markets # <<>>
    /\ IsTennis(Cur)
    /\ Parsable(Cur.open_time)
    /\ TooOld(now, FromIso(Cur.open_time))
    /\ NextMarket
    /\ NoteStale(Cur)
    /\ NoteDeclined(Cur.ticker, "filter")
    /\ UNCHANGED <<env, price, normalized, dropped, touched, tracked, now, sends, obs, qualified, outcome>>

\* BeginAdmission that gives a ticker one chance only
BeginAdmission_OneShot ==
    /\ pc = "loop"
    /\ markets # <<>>
    /\ InWindow(Cur)
    /\ Cur.ticker \notin DOMAIN tracked
    /\ IF declined[Cur.ticker] = "no"
       THEN /\ pc' = "price_open"
            /\ reply' = Pending
            /\ UNCHANGED <<markets, msg, err>>
       ELSE NextMarket
    /\ UNCHANGED <<env, price, normalized, dropped, touched, tracked, now, hist>>

\* lines 94-95: a ticker not in the store; its price is asked for
BeginAdmission ==
    /\ pc = "loop"
    /\ markets # <<>>
    /\ InWindow(Cur)
    /\ Cur.ticker \notin DOMAIN tracked
    /\ pc' = "price_open"
    /\ reply' = Pending
    /\ UNCHANGED <<env, price, normalized, dropped, touched, tracked, markets, now, msg, err, hist>>

\* SkipAlerted without the test of lines 108-109: the price is asked for anyway
SkipAlerted_Observes ==
    /\ pc = "loop"
    /\ markets # <<>>
    /\ InWindow(Cur)
    /\ Cur.ticker \in DOMAIN tracked
    /\ tracked[Cur.ticker].alerted
    /\ pc' = "price_live"
    /\ reply' = Pending
    /\ UNCHANGED <<env, price, normalized, dropped, touched, tracked, markets, now, msg, err, hist>>

\* lines 107-109
SkipAlerted ==
    /\ pc = "loop"
    /\ markets # <<>>
    /\ InWindow(Cur)
    /\ Cur.ticker \in DOMAIN tracked
    /\ tracked[Cur.ticker].alerted
    /\ NextMarket
    /\ UNCHANGED <<env, price, normalized, dropped, touched, tracked, now, hist>>

\* BeginObservation without the test of line 94: the ticker is admitted again
BeginObservation_Readmits ==
    /\ pc = "loop"
    /\ markets # <<>>
    /\ InWindow(Cur)
    /\ Cur.ticker \in DOMAIN tracked
    /\ ~tracked[Cur.ticker].alerted
    /\ pc' = "price_open"
    /\ reply' = Pending
    /\ UNCHANGED <<env, price, normalized, dropped, touched, tracked, markets, now, msg, err, hist>>

\* lines 107-111: a record that has not alerted; its price is asked for
BeginObservation ==
    /\ pc = "loop"
    /\ markets # <<>>
    /\ InWindow(Cur)
    /\ Cur.ticker \in DOMAIN tracked
    /\ ~tracked[Cur.ticker].alerted
    /\ pc' = "price_live"
    /\ reply' = Pending
    /\ UNCHANGED <<env, price, normalized, dropped, touched, tracked, markets, now, msg, err, hist>>

\* lines 45-49, 59: the gateway answers with an order book
OrderBookReply ==
    /\ pc \in {"price_open", "price_live"}
    /\ reply = Pending
    /\ env.base
    /\ \E asks \in AskLists : reply' = Book(asks)
    /\ UNCHANGED <<env, price, normalized, dropped, touched, pc, tracked, markets, now, msg, err, hist>>

\* lines 45-49, 59: the order book of a gateway whose prices are any numbers
OrderBookReplyWide ==
    /\ pc \in {"price_open", "price_live"}
    /\ reply = Pending
    /\ env.base
    /\ \E asks \in WideAskLists : reply' = Book(asks)
    /\ UNCHANGED <<env, price, normalized, dropped, touched, pc, tracked, markets, now, msg, err, hist>>

\* lines 47-48 raise inside get_yes_price
OrderBookFails ==
    /\ pc \in {"price_open", "price_live"}
    /\ reply = Pending
    /\ HandleException("book")
    /\ UNCHANGED <<env, price, normalized, now, hist>>

\* lines 95-104
ResumeAdmission ==
    /\ pc = "price_open"
    /\ reply.kind = "book"
    /\ LET opening_price == get_yes_price(reply.asks)
           t == Cur.ticker
       IN  /\ NoteSighting(Cur, opening_price)
           /\ IF Qualifies(opening_price)
              THEN /\ tracked' = Put(tracked, t, NewRecord(Cur, opening_price))
                   /\ declined' = declined
                   /\ NoteWrite(t)
              ELSE /\ tracked' = tracked
                   /\ NoteDeclined(t, "price")
                   /\ touched' = touched
    /\ NextMarket
    /\ UNCHANGED <<env, price, normalized, dropped, now, sends, obs, stale, outcome>>

\* lines 111-131, up to the await of push_alert
ResumeObservation ==
    /\ pc = "price_live"
    /\ reply.kind = "book"
    /\ LET live_price == get_yes_price(reply.asks)
           t == Cur.ticker
       IN  IF live_price = NoPrice
           THEN /\ NextMarket
                /\ UNCHANGED <<tracked, sends, obs, touched>>
           ELSE LET rec == Observe(tracked[t], live_price)
                IN  /\ tracked' = [tracked EXCEPT ![t] = rec]
                    /\ NoteWrite(t)
                    /\ obs' = [obs EXCEPT ![t] =
                                 Last(Append(@, live_price[1] < DROP_THRESHOLD),
                                      DROP_CONFIRM_TICKS)]
                    /\ IF rec.alerted
                       THEN /\ pc' = "push"
                            /\ msg' = Message(rec, live_price, t,
                                              IntMinutes(now, FromIso(Cur.open_time)))
                            /\ sends' = [sends EXCEPT ![t] = @ + 1]
                            /\ reply' = Pending
                            /\ markets' = markets
                            /\ err' = err
                       ELSE /\ NextMarket
                            /\ sends' = sends
    /\ UNCHANGED <<env, price, normalized, dropped, now, declined, qualified, stale, outcome>>

\* lines 131-132: the send returned
PushDone ==
    /\ pc = "push"
    /\ NextMarket
    /\ NoteOutcome(msg.ticker, "returned")
    /\ UNCHANGED <<env, price, normalized, dropped, touched, tracked, now, sends, obs,
                   declined, qualified, stale>>

\* PushFails with the flag taken back when the send raises, so that a later
\* cycle confirms the drop and sends again
PushFails_Unmarks ==
    /\ pc = "push"
    /\ pc' = "backoff"
    /\ err' = "push"
    /\ markets' = <<>>
    /\ reply' = Pending
    /\ msg' = NoMsg
    /\ tracked' = [tracked EXCEPT ![msg.ticker].alerted = FALSE,
                                  ![msg.ticker].below_50_ticks = 0]
    /\ touched' = Untouched
    /\ NoteDropped
    /\ NoteOutcome(msg.ticker, "raised")
    /\ UNCHANGED <<env, price, normalized, now, sends, obs, declined, qualified,
                   stale>>

\* lines 37-38 raise inside push_alert
PushFails ==
    /\ pc = "push"
    /\ HandleException("push")
    /\ NoteOutcome(msg.ticker, "raised")
    /\ UNCHANGED <<env, price, normalized, now, sends, obs, declined, qualified,
                   stale>>

\* WakeUp with the handler leaving the loop: only the sleep of line 134 ends
\* in a new cycle
WakeUp_AfterSuccessOnly ==
    /\ pc = "sleep"
    /\ pc' = "fetch"
    /\ err' = None
    /\ dropped' = 0
    /\ UNCHANGED <<env, price, normalized, touched, reply, tracked, markets, now, msg, hist>>

\* lines 134 and 138: the sleep ends, the loop asks for the market list again
WakeUp ==
    /\ pc \in {"sleep", "backoff"}
    /\ pc' = "fetch"
    /\ err' = None
    /\ dropped' = 0
    /\ UNCHANGED <<env, price, normalized, touched, reply, tracked, markets, now, msg, hist>>

-----------------------------------------------------------------------------
(* Specifications *)

AllSet == [base |-> TRUE, token |-> TRUE, user |-> TRUE]

InitWith(e) ==
    /\ env = e
    /\ pc = "start"
    /\ reply = Pending
    /\ tracked = NoRecords
    /\ markets = <<>>
    /\ now = 1800
    /\ msg = NoMsg
    /\ err = None
    /\ sends = [t \in Tickers |-> 0]
    /\ obs = [t \in Tickers |-> <<>>]
    /\ declined = [t \in Tickers |-> "no"]
    /\ qualified = {}
    /\ stale = [t \in Tickers |-> {}]
    /\ outcome = [t \in Tickers |-> "none"]
    /\ price = NoPrice
    /\ normalized = NoPrice
    /\ touched = Untouched
    /\ dropped = 0

Init == InitWith(AllSet)

Next ==
    \/ Start
    \/ FetchMarkets
    \/ FetchMarketsFails
    \/ LoopEnd
    \/ SkipMarket
    \/ ParseFails
    \/ SkipOld
    \/ BeginAdmission
    \/ SkipAlerted
    \/ BeginObservation
    \/ OrderBookReply
    \/ OrderBookFails
    \/ ResumeAdmission
    \/ ResumeObservation
    \/ PushDone
    \/ PushFails
    \/ WakeUp

Spec == Init /\ [][Next]_vars

\* the event loop resumes the task whenever its await has completed, and
\* every await completes: the requests carry timeouts (lines 37 and 46) and
\* the sleeps are finite
SpecLive == Spec /\ WF_vars(Next)

\* the program against a gateway whose prices are any numbers
NextWide ==
    \/ Start
    \/ FetchMarkets
    \/ FetchMarketsFails
    \/ LoopEnd
    \/ SkipMarket
    \/ ParseFails
    \/ SkipOld
    \/ BeginAdmission
    \/ SkipAlerted
    \/ BeginObservation
    \/ OrderBookReplyWide
    \/ OrderBookFails
    \/ ResumeAdmission
    \/ ResumeObservation
    \/ PushDone
    \/ PushFails
    \/ WakeUp

SpecWide == Init /\ [][NextWide]_vars

\* normalize_price called on its own, on any of its arguments
InitNormalize ==
    /\ price \in NormalizeArgs
    /\ normalized = NoPrice
    /\ pc = "call"
    /\ env = AllSet
    /\ reply = Pending
    /\ tracked = NoRecords
    /\ markets = <<>>
    /\ now = 1800
    /\ msg = NoMsg
    /\ err = None
    /\ sends = [t \in Tickers |-> 0]
    /\ obs = [t \in Tickers |-> <<>>]
    /\ declined = [t \in Tickers |-> "no"]
    /\ qualified = {}
    /\ stale = [t \in Tickers |-> {}]
    /\ outcome = [t \in Tickers |-> "none"]
    /\ touched = Untouched
    /\ dropped = 0

Normalize ==
    /\ pc = "call"
    /\ pc' = "return"
    /\ normalized' = normalize_price(price)
    /\ UNCHANGED <<env, price, touched, dropped, reply, tracked, markets, now, msg,
                   err, hist>>

NextNormalize == Normalize

SpecNormalize == InitNormalize /\ [][NextNormalize]_vars

\* the same program started with some required setting missing
InitUnconfigured == \E e \in Envs \ {AllSet} : InitWith(e)

SpecUnconfigured == InitUnconfigured /\ [][Next]_vars

-----------------------------------------------------------------------------
(* Properties *)

Tracked(t) == t \in DOMAIN tracked
TrackedNext(t) == t \in DOMAIN tracked'
Alerted(t) == Tracked(t) /\ tracked[t].alerted

\* the task is at a listed market that passes the filter of lines 84-91
AtListed(t) ==
    /\ pc = "loop"
    /\ markets # <<>>
    /\ Cur.ticker = t
    /\ InWindow(Cur)

\* the price the pending request returned, once the order book is there
Fetched == get_yes_price(reply.asks)

\* C1: once a record's alerted flag is true, no step changes the record
\* (alerted and the low-tick counter included), asks for the ticker's price or
\* issues another notification; no ticker ever has more than one send.
AtMostOnceAlert ==
    [][\A t \in Tickers :
         /\ sends'[t] <= 1
         /\ Alerted(t) =>
              /\ TrackedNext(t)
              /\ tracked'[t] = tracked[t]
              /\ sends'[t] = sends[t]
              /\ ~(pc' \in {"price_open", "price_live", "push"} /\ pc = "loop"
                     /\ Cur.ticker = t)]_vars

\* C1 witness: an alerted record, its one send issued, is listed again
AlertedListedAgain ==
    \E t \in Tickers : Alerted(t) /\ sends[t] = 1 /\ AtListed(t)

\* C2: a record has alerted, and its notification has been issued, exactly
\* when its DROP_CONFIRM_TICKS most recent price observations exist and are
\* all below DROP_THRESHOLD; observations exist for tracked tickers only.
ConfirmationDebounce ==
    \A t \in Tickers :
        LET lastLow == /\ Len(obs[t]) = DROP_CONFIRM_TICKS
                       /\ \A i \in 1..Len(obs[t]) : obs[t][i]
        IN  /\ sends[t] = 1 <=> lastLow
            /\ sends[t] \in {0, 1}
            /\ IF Tracked(t) THEN tracked[t].alerted <=> lastLow
                             ELSE obs[t] = <<>>

\* C2 witness: the alert fires on the second of two low observations
AlertOnSecondLow ==
    \E t \in Tickers :
        /\ pc = "push" /\ Cur.ticker = t
        /\ Alerted(t)
        /\ obs[t] = <<TRUE, TRUE>>

\* C3: when the price of an untracked listed market comes back, the market is
\* in the store after the step exactly when the price is present and at least
\* OPENING_THRESHOLD, and then that price is its opening_price; otherwise the
\* store is left as it was, whatever happened in earlier cycles.
AdmissionRetry ==
    [][pc = "price_open" /\ reply.kind = "book" =>
         LET t == Cur.ticker
         IN  IF Fetched # NoPrice /\ Fetched[1] >= OPENING_THRESHOLD
             THEN /\ TrackedNext(t)
                  /\ tracked'[t].opening_price = Fetched[1]
                  /\ ~tracked'[t].alerted
                  /\ tracked'[t].below_50_ticks = 0
             ELSE /\ ~TrackedNext(t)
                  /\ tracked' = tracked]_vars

\* C3 witness: a ticker refused for its price in an earlier look is tracked
AdmittedAfterLowPrice ==
    \E t \in Tickers : declined[t] = "price" /\ Tracked(t)

\* C4 as stated: a ticker that was looked at and not admitted is never in the
\* store afterwards.
OneShotAdmission ==
    \A t \in Tickers : declined[t] # "no" => ~Tracked(t)

\* C4 amended: a ticker that was looked at and not admitted has its price
\* asked for again whenever it is listed inside the filter while untracked,
\* and it enters the store exactly at a step that resumes such a request with
\* a qualifying price.
DeclinedIsRetried ==
    [][\A t \in Tickers :
         declined[t] # "no" /\ ~Tracked(t) =>
            /\ AtListed(t) => pc' = "price_open" /\ markets' = markets
            /\ TrackedNext(t) <=>
                 /\ pc = "price_open" /\ reply.kind = "book" /\ Cur.ticker = t
                 /\ Fetched # NoPrice /\ Fetched[1] >= OPENING_THRESHOLD]_vars

\* C4 witness: a ticker that the filter skipped earlier is tracked
AdmittedAfterFilter ==
    \E t \in Tickers : declined[t] = "filter" /\ Tracked(t)

\* C5: a record is created only at an elapsed time of at most
\* FIRST_SET_WINDOW_MINUTES, never with an open time its untracked ticker
\* was found too old with before; a listed untracked tennis market at exactly
\* FIRST_SET_WINDOW_MINUTES has its price asked for.
AdmissionWindow ==
    [][/\ \A t \in Tickers :
            ~Tracked(t) /\ TrackedNext(t) =>
               /\ tracked'[t].opened_at \notin stale[t]
               /\ now - tracked'[t].opened_at <= FIRST_SET_WINDOW_MINUTES * 60
       /\ ( /\ pc = "loop" /\ markets # <<>>
            /\ Cur.ticker \in Tickers
            /\ ~Tracked(Cur.ticker)
            /\ Contains(Keyword, Lower(Cur.title))
            /\ Parsable(Cur.open_time)
            /\ now - FromIso(Cur.open_time) = FIRST_SET_WINDOW_MINUTES * 60 )
          => pc' = "price_open"]_vars

\* C5 witness: an untracked ticker found too old is listed again with the
\* same open time
StaleListedAgain ==
    \E t \in Tickers :
        /\ ~Tracked(t)
        /\ pc = "loop" /\ markets # <<>> /\ Cur.ticker = t
        /\ IsTennis(Cur) /\ Parsable(Cur.open_time)
        /\ FromIso(Cur.open_time) \in stale[t]

\* C6: the tickers in the store are exactly the tickers that were seen with a
\* qualifying opening price on a listing that passed the filter.
RecordIffQualified == DOMAIN tracked = qualified

\* C6 witness: one ticker qualified and is tracked, the other was refused
\* for its price and is not
OneQualifiedOneRefused ==
    \E t, u \in Tickers :
        /\ t \in qualified /\ Tracked(t)
        /\ declined[u] = "price" /\ ~Tracked(u)

\* C7: a record is never removed, and its title, opened_at and opening_price
\* never change.
RecordsAreKept ==
    [][\A t \in Tickers :
         Tracked(t) =>
            /\ TrackedNext(t)
            /\ tracked'[t].title = tracked[t].title
            /\ tracked'[t].opened_at = tracked[t].opened_at
            /\ tracked'[t].opening_price = tracked[t].opening_price]_vars

\* C7 witness: a tracked ticker is listed again under another title and
\* open time
TrackedListedDifferently ==
    \E t \in Tickers :
        /\ Tracked(t) /\ AtListed(t)
        /\ Cur.title # tracked[t].title
        /\ FromIso(Cur.open_time) # tracked[t].opened_at

\* C8: when a present price of a tracked record that has not alerted comes
\* back, a price not below DROP_THRESHOLD sets the counter to 0, leaves
\* alerted false and sends nothing; a price below it adds exactly 1.
CounterRule ==
    [][pc = "price_live" /\ reply.kind = "book" /\ Fetched # NoPrice =>
         LET t == Cur.ticker
         IN  IF Fetched[1] >= DROP_THRESHOLD
             THEN /\ tracked'[t].below_50_ticks = 0
                  /\ ~tracked'[t].alerted
                  /\ sends' = sends
                  /\ pc' = "loop"
             ELSE tracked'[t].below_50_ticks = tracked[t].below_50_ticks + 1]_vars

\* C8 witness: a price of exactly DROP_THRESHOLD comes back for a record
\* whose counter stands at 1
BoundaryPriceAfterLow ==
    /\ pc = "price_live" /\ reply.kind = "book"
    /\ Fetched = Some(DROP_THRESHOLD)
    /\ tracked[Cur.ticker].below_50_ticks = 1

\* C9: a step that raises leaves the store as it is, and so does the sleep
\* of the handler: the next cycle starts from the store the failed one left.
FailedCycleKeepsStore ==
    [][pc' = "backoff" \/ pc = "backoff" => tracked' = tracked]_vars

\* C9 witness: the handler sleeps after a failed send, the store holding the
\* alerted flag set in that cycle
BackoffAfterFailedSend ==
    /\ pc = "backoff" /\ err = "push"
    /\ \E t \in Tickers : Alerted(t)

\* C10 as stated: with a required setting missing, the poll loop is never
\* entered and no market list is ever asked for.
StartupFatal == env # AllSet => pc = "start"

\* C11: the poll loop never returns: whatever a cycle did, completed or
\* failed, the task comes back to asking for the market list, again and again.
LoopNeverReturns == []<>(pc = "fetch")

\* C11 witness: the longer sleep that follows a failed cycle
SleepingAfterFailure == pc = "backoff" /\ err # None /\ tracked # NoRecords

\* C12: a call of normalize_price returns absent for an absent argument, the
\* argument divided by 100 when it is greater than 1, and the argument itself
\* when it is at most 1 (1 included).
NormalizationContract ==
    pc = "return" =>
        /\ price = NoPrice => normalized = NoPrice
        /\ price # NoPrice /\ price[1] > Hundred =>
              normalized # NoPrice /\ normalized[1] * Hundred = price[1]
        /\ price # NoPrice /\ price[1] <= Hundred => normalized = price

\* C12 witness: the call returned for the argument 1
NormalizedOne ==
    pc = "return" /\ price = Some(Hundred) /\ normalized = Some(Hundred)

\* C13 as stated: whatever prices the gateway supplies, the opening_price of
\* every record is a fraction greater than 0 and at most 1, and at least
\* OPENING_THRESHOLD.
OpeningPriceIsFraction ==
    \A t \in DOMAIN tracked :
        /\ tracked[t].opening_price > 0
        /\ tracked[t].opening_price <= Hundred
        /\ tracked[t].opening_price >= OPENING_THRESHOLD

\* C14 as stated: in one poll cycle the record of a ticker is written at most
\* once (it is created, or it takes one observation), whatever list the
\* gateway returned.
OncePerCycle == \A t \in Tickers : touched[t] <= 1

\* C15: when the send of a notification raises, the record is alerted after
\* the handler, and from then on it stays alerted, no send is issued for its
\* ticker and no send of it returns: the notification is never delivered.
FailedSendIsFinal ==
    [][\A t \in Tickers :
         \/ pc = "push" /\ msg.ticker = t /\ pc' = "backoff"
         \/ outcome[t] = "raised"
         => /\ outcome'[t] = "raised"
            /\ TrackedNext(t)
            /\ tracked'[t].alerted
            /\ sends'[t] = sends[t]
            /\ ~(pc' = "push" /\ msg'.ticker = t)]_vars

\* C15 witness: a ticker whose send raised is listed again in a later cycle
LostAlertListedAgain ==
    \E t \in Tickers : outcome[t] = "raised" /\ sends[t] = 1 /\ AtListed(t)

\* C16: a step that turns a record's alerted flag from false to true issues,
\* in the same step and with the list where it was, exactly one send for that
\* ticker, carrying the record's title and opening_price, the price just
\* observed and the ticker; a send is issued only in such a step, and the
\* record of a send in flight is alerted.
AlertThenSend ==
    [][\A t \in Tickers :
         /\ Tracked(t) /\ ~tracked[t].alerted /\ tracked'[t].alerted =>
               /\ pc = "price_live" /\ Cur.ticker = t
               /\ pc' = "push" /\ markets' = markets
               /\ sends'[t] = sends[t] + 1
               /\ msg'.ticker = t
               /\ msg'.title = tracked[t].title
               /\ msg'.opening_price = tracked[t].opening_price
               /\ msg'.live_price = Fetched[1]
         /\ sends'[t] # sends[t] =>
               /\ sends'[t] = sends[t] + 1
               /\ Tracked(t) /\ ~tracked[t].alerted /\ tracked'[t].alerted
         /\ pc' = "push" /\ msg'.ticker = t =>
               TrackedNext(t) /\ tracked'[t].alerted]_vars

\* C16 witness: a send in flight for a record that has just alerted, the
\* listing in hand bearing another title than the record
SendCarriesRecordTitle ==
    /\ pc = "push"
    /\ Alerted(msg.ticker)
    /\ sends[msg.ticker] = 1
    /\ Cur.title # msg.title
    /\ msg.title = tracked[msg.ticker].title

\* the seconds from the open time of the listing in hand to the cycle timestamp
Elapsed == now - FromIso(Cur.open_time)

\* C17: a listed tennis market whose open time lies more than
\* FIRST_SET_WINDOW_MINUTES before the cycle timestamp is passed over, tracked
\* or not: no price is asked for, the store and the send counts stay as they
\* are.  A price is asked for and a send is issued only at an elapsed time of
\* at most FIRST_SET_WINDOW_MINUTES, and the cycle timestamp never goes back,
\* so a window that has closed stays closed.
WindowAppliesToTracked ==
    [][/\ ( /\ pc = "loop" /\ markets # <<>>
            /\ Cur.ticker # None
            /\ Contains(Keyword, Lower(Cur.title))
            /\ Parsable(Cur.open_time)
            /\ Elapsed > FIRST_SET_WINDOW_MINUTES * 60 )
          => /\ pc' = "loop"
             /\ markets' = Tail(markets)
             /\ tracked' = tracked
             /\ sends' = sends
       /\ pc' \in {"price_open", "price_live"} =>
             Elapsed <= FIRST_SET_WINDOW_MINUTES * 60
       /\ pc' = "push" =>
             /\ Elapsed <= FIRST_SET_WINDOW_MINUTES * 60
             /\ msg'.minutes <= FIRST_SET_WINDOW_MINUTES
       /\ now' >= now]_vars

\* C17 witness: a record that has counted one low price and has not alerted is
\* listed after its window has closed
TrackingListedTooOld ==
    \E t \in Tickers :
        /\ pc = "loop" /\ markets # <<>> /\ Cur.ticker = t
        /\ Tracked(t) /\ ~tracked[t].alerted /\ tracked[t].below_50_ticks = 1
        /\ IsTennis(Cur) /\ Parsable(Cur.open_time)
        /\ Elapsed > FIRST_SET_WINDOW_MINUTES * 60
        /\ FromIso(Cur.open_time) = tracked[t].opened_at

\* C18: a step that raises ends the cycle: the task goes to the sleep of the
\* handler, every market listed after the one in hand is left unhandled, and
\* the store, the send counts and the observations made so far in the cycle
\* stand; from that sleep the only step is to ask for a new market list.
AbortsRestOfCycle ==
    [][/\ err = None /\ err' # None =>
             /\ pc' = "backoff"
             /\ markets' = <<>>
             /\ dropped' = (IF markets = <<>> THEN 0 ELSE Len(markets) - 1)
             /\ tracked' = tracked
             /\ sends' = sends
             /\ obs' = obs
       /\ pc = "backoff" =>
             /\ pc' = "fetch"
             /\ markets' = <<>>
             /\ tracked' = tracked
             /\ sends' = sends
             /\ obs' = obs
       /\ err # None => pc = "backoff"]_vars

\* C18 witness: the handler sleeps after a failure at a market that was not
\* the last of its list
MarketsLeftUnhandled ==
    /\ pc = "backoff"
    /\ err \in {"book", "parse"}
    /\ dropped >= 1

\* C19: when the order book that comes back has no asks, or a best ask
\* without a price, the step changes nothing but the place in the list: the
\* store (no record created, counter and alerted flag as they were), the send
\* counts and the observations are left alone and the loop goes on.
AbsentPriceChangesNothing ==
    [][( /\ pc \in {"price_open", "price_live"}
         /\ reply.kind = "book"
         /\ reply.asks = <<>> \/ Head(reply.asks) = NoPrice )
       => /\ tracked' = tracked
          /\ sends' = sends
          /\ obs' = obs
          /\ pc' = "loop"
          /\ markets' = Tail(markets)]_vars

\* C19 witness: an empty book comes back for a record that has counted one
\* low price
EmptyBookAfterLow ==
    /\ pc = "price_live" /\ reply.kind = "book" /\ reply.asks = <<>>
    /\ tracked[Cur.ticker].below_50_ticks = 1
    /\ obs[Cur.ticker] = <<TRUE>>

\* C20: wherever the task is suspended, the counter of every record lies
\* between 0 and DROP_CONFIRM_TICKS, and the record is alerted exactly when the
\* counter equals DROP_CONFIRM_TICKS.
CounterBounded ==
    \A t \in DOMAIN tracked :
        /\ tracked[t].below_50_ticks \in 0..DROP_CONFIRM_TICKS
        /\ tracked[t].alerted <=> tracked[t].below_50_ticks = DROP_CONFIRM_TICKS

\* C20 witness: between two cycles, one record alerted with the counter at
\* DROP_CONFIRM_TICKS, another one step short of it
OneConfirmedOneShort ==
    /\ pc = "sleep"
    /\ \E t, u \in DOMAIN tracked :
          /\ tracked[t].alerted
          /\ tracked[t].below_50_ticks = DROP_CONFIRM_TICKS
          /\ ~tracked[u].alerted
          /\ tracked[u].below_50_ticks = DROP_CONFIRM_TICKS - 1

====
